---- MODULE Spec2Model ----
(***************************************************************************)
(* Orthogonal connector router (src/unnamed/part_000).                     *)
(*                                                                         *)
(* Coordinates are integers.  A Point is [x, y]; a Rect / Rectangle is     *)
(* [left, top, width, height]; a ConnectorPoint is [shape, side, distance].*)
(***************************************************************************)
EXTENDS Integers, Sequences, FiniteSets, TLC

----------------------------------------------------------------------------
(* Geometry primitives                                                     *)

makePt(x, y) == [x |-> x, y |-> y]

Abs(n) == IF n < 0 THEN -n ELSE n

Min2(a, b) == IF a < b THEN a ELSE b

Max2(a, b) == IF a > b THEN a ELSE b

\* Math.sqrt((b.x - a.x) ** 2 + (b.y - a.y) ** 2): the root as an integer
\* when the sum of squares sq has one, as for two points of one row or one
\* column; otherwise the root is no integer and is given as [sqrt |-> sq],
\* the number whose square is sq.
distance(a, b) ==
    LET sq == (b.x - a.x) * (b.x - a.x) + (b.y - a.y) * (b.y - a.y)
        roots == {d \in Max2(Abs(b.x - a.x), Abs(b.y - a.y))..
                           (Abs(b.x - a.x) + Abs(b.y - a.y)) : d * d = sq}
    IN  IF roots # {} THEN CHOOSE d \in roots : TRUE ELSE [sqrt |-> sq]

Rectangle(left, top, width, height) ==
    [left |-> left, top |-> top, width |-> width, height |-> height]

fromRect(r) == Rectangle(r.left, r.top, r.width, r.height)

fromLTRB(left, top, right, bottom) == Rectangle(left, top, right - left, bottom - top)

right(r) == r.left + r.width

bottom(r) == r.top + r.height

contains(r, p) ==
    p.x >= r.left /\ p.x <= right(r) /\ p.y >= r.top /\ p.y <= bottom(r)

inflate(r, horizontal, vertical) ==
    fromLTRB(r.left - horizontal, r.top - vertical, right(r) + horizontal, bottom(r) + vertical)

intersects(r, rectangle) ==
    /\ rectangle.left < r.left + r.width
    /\ r.left < rectangle.left + rectangle.width
    /\ rectangle.top < r.top + r.height
    /\ r.top < rectangle.top + rectangle.height

union(r, o) ==
    fromLTRB(Min2(Min2(r.left, right(r)), Min2(o.left, right(o))),
             Min2(Min2(r.top, bottom(r)), Min2(o.top, bottom(o))),
             Max2(Max2(r.left, right(r)), Max2(o.left, right(o))),
             Max2(Max2(r.top, bottom(r)), Max2(o.top, bottom(o))))

----------------------------------------------------------------------------
(* Connector points                                                        *)

Sides == {"top", "right", "bottom", "left"}

ConnectorPoint(shape, side, dist) == [shape |-> shape, side |-> side, distance |-> dist]

computePt(p) ==
    LET b == fromRect(p.shape)
    IN  CASE p.side = "bottom" -> makePt(b.left + b.width * p.distance, bottom(b))
          [] p.side = "top"    -> makePt(b.left + b.width * p.distance, b.top)
          [] p.side = "left"   -> makePt(b.left, b.top + p.distance)
          [] p.side = "right"  -> makePt(right(b), b.top + p.distance)

extrudeCp(cp, margin) ==
    LET p == computePt(cp)
    IN  CASE cp.side = "top"    -> makePt(p.x, p.y - margin)
          [] cp.side = "right"  -> makePt(p.x + margin, p.y)
          [] cp.side = "bottom" -> makePt(p.x, p.y + margin)
          [] cp.side = "left"   -> makePt(p.x - margin, p.y)

isVerticalSide(side) == side = "top" \/ side = "bottom"

----------------------------------------------------------------------------
(* Sequences                                                               *)

\* The sequence s with every element evaluated.  TLC keeps a function
\* constructor as an expression and evaluates its body again at each
\* application; SubSeq makes it an explicit tuple.
Tuple(s) == SubSeq(s, 1, Len(s))

\* Array.prototype.sort((a, b) => a - b) on a sequence of integers: the
\* element at position k goes to the place after the smaller ones and the
\* equal ones that come before it.
SortAsc(s) ==
    LET place == [k \in 1..Len(s) |->
                     1 + Cardinality({l \in 1..Len(s) :
                                         s[l] < s[k] \/ (s[l] = s[k] /\ l < k)})]
    IN  Tuple([r \in 1..Len(s) |-> s[CHOOSE k \in 1..Len(s) : place[k] = r]])

\* The elements of s, each kept at its first occurrence.
Uniq(s) ==
    LET marked == [k \in 1..Len(s) |->
                      [value |-> s[k], first |-> \A l \in 1..(k - 1) : s[l] # s[k]]]
        kept == SelectSeq(marked, LAMBDA e : e.first)
    IN  Tuple([k \in 1..Len(kept) |-> kept[k].value])

\* rows[lo] \o ... \o rows[hi]
RECURSIVE Flatten(_, _, _)
Flatten(rows, lo, hi) ==
    IF lo > hi THEN <<>>
    ELSE IF lo = hi THEN rows[lo]
    ELSE LET mid == (lo + hi) \div 2
         IN  Flatten(rows, lo, mid) \o Flatten(rows, mid + 1, hi)

Range(s) == {s[k] : k \in DOMAIN s}

\* The function f written out as an explicit table of its values.
Table(f) == f @@ <<>>

----------------------------------------------------------------------------
(* Candidate spots: the lattice strategy                                   *)

\* Math.round of a quotient n / d of integers, d > 0 (halves round up).
RoundDiv(n, d) == (2 * n + d) \div (2 * d)

\* reducePoints: a Map from y to the xs seen with it, both in first-seen
\* order, read back row by row.  seen pairs every y with the index of the
\* first point that has it; the r-th key of the Map is the y with r - 1
\* keys seen before it.
reducePoints(points) ==
    LET n == Len(points)
        ySet == {points[k].y : k \in 1..n}
        seen == {<<CHOOSE k \in 1..n : points[k].y = y /\ \A l \in 1..(k - 1) : points[l].y # y,
                   y>> : y \in ySet}
        rowOf(r) ==
            LET key == (CHOOSE e \in seen : Cardinality({d \in seen : d[1] < e[1]}) = r - 1)[2]
                row == SelectSeq(points, LAMBDA p : p.y = key)
                xs  == Uniq([k \in 1..Len(row) |-> row[k].x])
            IN  [k \in 1..Len(xs) |-> makePt(xs[k], key)]
    IN  Flatten([r \in 1..Cardinality(ySet) |-> rowOf(r)], 1, Cardinality(ySet))

\* obstacleCollision that lets the points on an obstacle's boundary pass.
obstacleCollision_strict(obstacles, p) ==
    \E k \in 1..Len(obstacles) :
        /\ p.x > obstacles[k].left /\ p.x < right(obstacles[k])
        /\ p.y > obstacles[k].top  /\ p.y < bottom(obstacles[k])

obstacleCollision(obstacles, p) == \E k \in 1..Len(obstacles) : contains(obstacles[k], p)

LookoutMargin == 30
Step == 10
Lead == 20
MinCount == 30

\* rows / cols of gridToSpots2 for a window extent.
LatticeCount(extent) ==
    IF extent > Step * 10 THEN RoundDiv(extent, Step) + Lead ELSE MinCount

gridToSpots2(shapeA, shapeB, shapeMargin, obstacles) ==
    LET pointA == [left |-> obstacles[1].left, top |-> obstacles[1].top,
                   width |-> obstacles[1].width, height |-> obstacles[1].height,
                   distance |-> shapeA.distance + shapeMargin]
        pointB == [left |-> obstacles[2].left, top |-> obstacles[2].top,
                   width |-> obstacles[2].width, height |-> obstacles[2].height,
                   distance |-> shapeB.distance + shapeMargin]
        x1 == Min2(pointA.left + pointA.width, pointB.left + pointB.width) + LookoutMargin
        y1 == Min2(pointA.top + pointA.distance, pointB.top + pointB.distance)
        x2 == Max2(pointA.left, pointB.left) - LookoutMargin
        y2 == Max2(pointA.top + pointA.distance, pointB.top + pointB.distance)
        width  == Abs(x2 - x1)
        height == Abs(y2 - y1)
        rows == LatticeCount(height)
        cols == LatticeCount(width)
        gridPoints ==
            Flatten([i \in 1..(rows + Lead) |->
                        [j \in 1..(cols + Lead) |->
                            makePt(x1 + (j - 1 - Lead) * Step, y1 + (i - 1 - Lead) * Step)]],
                    1, rows + Lead)
    IN  SelectSeq(reducePoints(gridPoints), LAMBDA p : ~obstacleCollision(obstacles, p))

----------------------------------------------------------------------------
(* Visibility graph                                                        *)

\* Number.MAX_SAFE_INTEGER, the distance of a node no search has reached.
\* It stands for 2^53 - 1 within the integers TLC can hold; every distance a
\* search computes here stays far below it.
MAX_SAFE_INTEGER == 2147483647

\* new PointNode(p): distance and shortestPath of a fresh node.
PointNode == [distance |-> MAX_SAFE_INTEGER, shortestPath |-> <<>>]

\* PointGraph.index after graph.add(p) for every spot: x -> y -> node, kept
\* here as x -> the set of the ys that have a node.
PointGraphIndex(spots) ==
    Table([x \in {spots[k].x : k \in DOMAIN spots} |->
              {spots[k].y : k \in {l \in DOMAIN spots : spots[l].x = x}}])

\* PointGraph.has(p)
has(index, p) == p.x \in DOMAIN index /\ p.y \in index[p.x]

\* createConnections with the second connection made to the node at the
\* previous hotX of the previous row.
createConnections_diagonal(index, hotXs, hotYs) ==
    LET nx == Len(hotXs)
        cand == [k \in 1..(2 * Len(hotYs) * nx) |->
                    LET cell == (k - 1) \div 2
                        i == (cell \div nx) + 1
                        j == (cell % nx) + 1
                    IN  IF (k - 1) % 2 = 0
                        THEN [inRange |-> j > 1,
                              a |-> makePt(hotXs[IF j > 1 THEN j - 1 ELSE j], hotYs[i]),
                              b |-> makePt(hotXs[j], hotYs[i])]
                        ELSE [inRange |-> i > 1 /\ j > 1,
                              a |-> makePt(hotXs[IF j > 1 THEN j - 1 ELSE j],
                                           hotYs[IF i > 1 THEN i - 1 ELSE i]),
                              b |-> makePt(hotXs[j], hotYs[i])]]
        pushed == SelectSeq(cand, LAMBDA c : c.inRange /\ has(index, c.b) /\ has(index, c.a))
    IN  Tuple([k \in 1..Len(pushed) |-> [a |-> pushed[k].a, b |-> pushed[k].b]])

\* The connections createGraph pushes, in order: for every existing node b
\* in row-major order of (hotY, hotX), first the one to the node at the
\* previous hotX of its row, then the one to the node at the previous hotY
\* of its column.
createConnections(index, hotXs, hotYs) ==
    LET nx == Len(hotXs)
        cand == [k \in 1..(2 * Len(hotYs) * nx) |->
                    LET cell == (k - 1) \div 2
                        i == (cell \div nx) + 1
                        j == (cell % nx) + 1
                    IN  IF (k - 1) % 2 = 0
                        THEN [inRange |-> j > 1,
                              a |-> makePt(hotXs[IF j > 1 THEN j - 1 ELSE j], hotYs[i]),
                              b |-> makePt(hotXs[j], hotYs[i])]
                        ELSE [inRange |-> i > 1,
                              a |-> makePt(hotXs[j], hotYs[IF i > 1 THEN i - 1 ELSE i]),
                              b |-> makePt(hotXs[j], hotYs[i])]]
        pushed == SelectSeq(cand, LAMBDA c : c.inRange /\ has(index, c.b) /\ has(index, c.a))
    IN  Tuple([k \in 1..Len(pushed) |-> [a |-> pushed[k].a, b |-> pushed[k].b]])

\* adjacentNodes with graph.connect(a, b) alone: node b gets no entry for a.
adjacentNodes_oneWay(connections, n) ==
    LET mine == SelectSeq(connections, LAMBDA c : c.a = n)
        other == Uniq(Tuple([k \in 1..Len(mine) |-> mine[k].b]))
    IN  Tuple([k \in 1..Len(other) |-> [node |-> other[k], weight |-> distance(n, other[k])]])

\* adjacentNodes of node n after graph.connect(a, b); graph.connect(b, a)
\* for every connection in order: a Map keeps a key at its first insertion.
adjacentNodes(connections, n) ==
    LET mine == SelectSeq(connections, LAMBDA c : c.a = n \/ c.b = n)
        other == Uniq(Tuple([k \in 1..Len(mine) |->
                                IF mine[k].a = n THEN mine[k].b ELSE mine[k].a]))
    IN  Tuple([k \in 1..Len(other) |-> [node |-> other[k], weight |-> distance(n, other[k])]])

\* createGraph(spots): PointGraph.add keeps one node per coordinate, so
\* the nodes are the set of spot coordinates; graph gives the adjacency Map
\* of each node.
createGraph(spots) ==
    LET hotXs == SortAsc(Uniq(Tuple([k \in 1..Len(spots) |-> spots[k].x])))
        hotYs == SortAsc(Uniq(Tuple([k \in 1..Len(spots) |-> spots[k].y])))
        index == PointGraphIndex(spots)
        connections == createConnections(index, hotXs, hotYs)
    IN  [graph |-> [n \in Range(spots) |-> adjacentNodes(connections, n)],
         connections |-> connections]

----------------------------------------------------------------------------
(* Turn-penalized shortest-path search: pure parts                         *)

\* directionOf; "null" stands for null.
directionOf(a, b) ==
    IF a.x = b.x THEN "h"
    ELSE IF a.y = b.y THEN "v"
    ELSE "null"

\* inferPathDirection that takes the first step of the path instead of the
\* last one.
inferPathDirection_firstStep(nodes, n) ==
    IF Len(nodes[n].shortestPath) = 0 THEN "null"
    ELSE directionOf(nodes[n].shortestPath[1],
                     IF Len(nodes[n].shortestPath) > 1 THEN nodes[n].shortestPath[2] ELSE n)

\* inferPathDirection(node), nodes being the distance / shortestPath fields
\* of every node of the graph.
inferPathDirection(nodes, n) ==
    IF Len(nodes[n].shortestPath) = 0 THEN "null"
    ELSE directionOf(nodes[n].shortestPath[Len(nodes[n].shortestPath)], n)

\* The extra weight charged for keeping the direction instead of changing it.
extraWeigh_onStraight(nodes, evaluationNode, edgeWeigh, sourceNode) ==
    IF inferPathDirection(nodes, sourceNode) = directionOf(sourceNode, evaluationNode)
    THEN (edgeWeigh + 1) * (edgeWeigh + 1)
    ELSE 0

\* (edgeWeigh + 1) ** 2 when the direction changes, else 0.
extraWeigh(nodes, evaluationNode, edgeWeigh, sourceNode) ==
    LET comingDirection == inferPathDirection(nodes, sourceNode)
        goingDirection  == directionOf(sourceNode, evaluationNode)
        changingDirection ==
            comingDirection # "null" /\ goingDirection # "null" /\ comingDirection # goingDirection
    IN  IF changingDirection THEN (edgeWeigh + 1) * (edgeWeigh + 1) ELSE 0

\* calculateMinimumDistance without the distance of the source node.
calculateMinimumDistance_edgeOnly(nodes, evaluationNode, edgeWeigh, sourceNode) ==
    LET extra == extraWeigh(nodes, evaluationNode, edgeWeigh, sourceNode)
    IN  IF edgeWeigh + extra < nodes[evaluationNode].distance
        THEN [nodes EXCEPT ![evaluationNode] =
                 [distance |-> edgeWeigh + extra,
                  shortestPath |-> Append(nodes[sourceNode].shortestPath, sourceNode)]]
        ELSE nodes

\* calculateMinimumDistance that also takes a path of equal cost.
calculateMinimumDistance_orEqual(nodes, evaluationNode, edgeWeigh, sourceNode) ==
    LET sourceDistance == nodes[sourceNode].distance
        extra == extraWeigh(nodes, evaluationNode, edgeWeigh, sourceNode)
    IN  IF sourceDistance + edgeWeigh + extra <= nodes[evaluationNode].distance
        THEN [nodes EXCEPT ![evaluationNode] =
                 [distance |-> sourceDistance + edgeWeigh + extra,
                  shortestPath |-> Append(nodes[sourceNode].shortestPath, sourceNode)]]
        ELSE nodes

\* calculateMinimumDistance: the node fields after the relaxation.
calculateMinimumDistance(nodes, evaluationNode, edgeWeigh, sourceNode) ==
    LET sourceDistance == nodes[sourceNode].distance
        extra == extraWeigh(nodes, evaluationNode, edgeWeigh, sourceNode)
    IN  IF sourceDistance + edgeWeigh + extra < nodes[evaluationNode].distance
        THEN [nodes EXCEPT ![evaluationNode] =
                 [distance |-> sourceDistance + edgeWeigh + extra,
                  shortestPath |-> Append(nodes[sourceNode].shortestPath, sourceNode)]]
        ELSE nodes

\* getLowestDistanceNode over a Set in insertion order: the first node whose
\* distance is the lowest one, when that is below MAX_SAFE_INTEGER; <<>> is
\* null.
getLowestDistanceNode(nodes, unsettled) ==
    LET distances == {nodes[unsettled[k]].distance : k \in 1..Len(unsettled)}
        lowestDistance == CHOOSE d \in distances : \A e \in distances : d <= e
        lowest == SelectSeq(unsettled, LAMBDA n : nodes[n].distance = lowestDistance)
    IN  IF unsettled = <<>> \/ lowestDistance >= MAX_SAFE_INTEGER THEN <<>> ELSE <<lowest[1]>>

\* Set.add and Set.delete on a Set kept in insertion order.
SetAdd(set, e) == IF \E k \in 1..Len(set) : set[k] = e THEN set ELSE Append(set, e)

SetDelete(set, e) == SelectSeq(set, LAMBDA m : m # e)

\* The state of calculateShortestPathFromSource as one value: the node
\* fields, the two Sets (settled as a table node -> settledNodes.has(node)),
\* the node taken by the while loop, the position of the for loop, and
\* failed when getLowestDistanceNode returned null.
SearchState(nodes, source) ==
    [nodes |-> [Table(nodes) EXCEPT ![source].distance = 0],
     unsettled |-> <<source>>,
     settled |-> Table([n \in DOMAIN nodes |-> FALSE]),
     current |-> <<>>,
     index |-> 0,
     failed |-> FALSE]

\* for (const [adjacentNode, edgeWeight] of currentNode.adjacentNodes)
\* from position k to the end.
RECURSIVE relaxAdjacent(_, _, _)
relaxAdjacent(g, s, k) ==
    IF k > Len(g[s.current[1]]) THEN [s EXCEPT !.index = k]
    ELSE LET adjacent == g[s.current[1]][k]
         IN  relaxAdjacent(g,
                 IF s.settled[adjacent.node] THEN s
                 ELSE [s EXCEPT !.nodes = calculateMinimumDistance(s.nodes, adjacent.node,
                                                                   adjacent.weight, s.current[1]),
                                !.unsettled = SetAdd(s.unsettled, adjacent.node)],
                 k + 1)

\* One turn of while (unsettledNodes.size !== 0).
searchTurn(g, s) ==
    IF s.unsettled = <<>> \/ s.failed THEN s
    ELSE LET lowest == getLowestDistanceNode(s.nodes, s.unsettled)
         IN  IF lowest = <<>> THEN [s EXCEPT !.failed = TRUE]
             ELSE LET relaxed == relaxAdjacent(g, [s EXCEPT !.current = lowest,
                                                            !.unsettled = SetDelete(s.unsettled, lowest[1])], 1)
                  IN  [relaxed EXCEPT !.settled[lowest[1]] = TRUE]

\* n turns of the while loop, the state after the first half of them bound
\* as a value before the second half starts.
RECURSIVE searchTurns(_, _, _)
searchTurns(g, s, n) ==
    IF n = 0 THEN s
    ELSE IF n = 1 THEN searchTurn(g, s)
    ELSE CHOOSE r \in {searchTurns(g, h, n - (n \div 2)) : h \in {searchTurns(g, s, n \div 2)}} : TRUE

\* while (unsettledNodes.size !== 0): turns of the loop, n at a time, until
\* the unsettled set is empty or the loop has thrown.
RECURSIVE searchLoop(_, _, _)
searchLoop(g, s, n) ==
    IF s.unsettled = <<>> \/ s.failed THEN s
    ELSE CHOOSE r \in {searchLoop(g, h, n) : h \in {searchTurns(g, s, n)}} : TRUE

\* calculateShortestPathFromSource(graph, source) run to its end.  The
\* loop is taken in batches of one turn per node: a graph whose nodes are
\* each visited once is done in the first batch, and a node with an edge to
\* itself, which is put back in the unsettled set and visited again, makes
\* further batches run.
calculateShortestPathFromSource(g, nodes, source) ==
    searchLoop(g, SearchState(nodes, source), Cardinality(DOMAIN g))

----------------------------------------------------------------------------
(* Path simplifier                                                         *)

\* getBend that reports a straight line only for three points of equal x.
getBend_equalXOnly(a, b, c) ==
    IF a.x = b.x /\ b.x = c.x THEN "none"
    ELSE IF ~(a.x = b.x \/ a.y = b.y) \/ ~(b.x = c.x \/ b.y = c.y) THEN "unknown"
    ELSE IF a.y = b.y /\ b.x = c.x THEN (IF c.y > b.y THEN "s" ELSE "n")
    ELSE IF a.x = b.x /\ b.y = c.y THEN (IF c.x > b.x THEN "e" ELSE "w")
    ELSE "s"

\* getBend that throws for a step that is neither horizontal nor vertical.
getBend_orthogonalOnly(a, b, c) ==
    IF (a.x = b.x /\ b.x = c.x) \/ (a.y = b.y /\ b.y = c.y) THEN "none"
    ELSE IF ~(a.x = b.x \/ a.y = b.y) \/ ~(b.x = c.x \/ b.y = c.y) THEN "Error: Nope"
    ELSE IF a.y = b.y /\ b.x = c.x THEN (IF c.y > b.y THEN "s" ELSE "n")
    ELSE (IF c.x > b.x THEN "e" ELSE "w")

\* getBend(a, b, c); "Error: Nope" stands for throw new Error('Nope').
getBend(a, b, c) ==
    LET equalX == a.x = b.x /\ b.x = c.x
        equalY == a.y = b.y /\ b.y = c.y
        segment1Horizontal == a.y = b.y
        segment1Vertical   == a.x = b.x
        segment2Horizontal == b.y = c.y
        segment2Vertical   == b.x = c.x
    IN  IF equalX \/ equalY THEN "none"
        ELSE IF ~(segment1Vertical \/ segment1Horizontal) \/ ~(segment2Vertical \/ segment2Horizontal)
        THEN "unknown"
        ELSE IF segment1Horizontal /\ segment2Vertical
        THEN (IF c.y > b.y THEN "s" ELSE "n")
        ELSE IF segment1Vertical /\ segment2Horizontal
        THEN (IF c.x > b.x THEN "e" ELSE "w")
        ELSE "Error: Nope"

\* A getBend call of simplifyPath(points) throws.
bendThrows(points) ==
    \E i \in 2..(Len(points) - 1) :
        getBend(points[i - 1], points[i], points[i + 1]) = "Error: Nope"

\* The indices of points that simplifyPath keeps.
KeptIndices(points) ==
    {i \in 1..Len(points) :
        \/ i = 1
        \/ i = Len(points)
        \/ getBend(points[i - 1], points[i], points[i + 1]) # "none"}

\* simplifyPath without the push of the last point.
simplifyPath_dropsLast(points) ==
    IF Len(points) <= 2 THEN points
    ELSE LET idx == SelectSeq([i \in 1..Len(points) |-> i],
                              LAMBDA i : i < Len(points) /\ i \in KeptIndices(points))
         IN  [k \in 1..Len(idx) |-> points[idx[k]]]

simplifyPath(points) ==
    IF Len(points) <= 2 THEN points
    ELSE LET keep == [i \in 1..Len(points) |-> i \in KeptIndices(points)]
             idx  == SelectSeq([i \in 1..Len(points) |-> i], LAMBDA i : keep[i])
         IN  [k \in 1..Len(idx) |-> points[idx[k]]]

----------------------------------------------------------------------------
(* Ruler / grid builder                                                    *)

\* grid.rectangles() of rulersToGrid(verticals, horizontals, bounds): the
\* function sorts both rulers ascending, then lays the cells row by row, the
\* last cell of a row and the last row reaching the right and bottom of
\* bounds.
rulersToGrid(verticals, horizontals, bounds) ==
    LET vs == SortAsc(verticals)
        hs == SortAsc(horizontals)
        nc == Len(vs) + 1
        nr == Len(hs) + 1
    IN  [k \in 1..(nr * nc) |->
            LET row == (k - 1) \div nc
                column == (k - 1) % nc
                lastX == IF column = 0 THEN bounds.left ELSE vs[column]
                lastY == IF row = 0 THEN bounds.top ELSE hs[row]
                x == IF column < Len(vs) THEN vs[column + 1] ELSE right(bounds)
                y == IF row < Len(hs) THEN hs[row + 1] ELSE bottom(bounds)
            IN  fromLTRB(lastX, lastY, x, y)]

----------------------------------------------------------------------------
(* Routing facade: everything route computes before the search             *)

\* The antenna loop pushing the anchor itself instead of the antenna.
antennaSpot_anchor(connectorPt, shapeMargin) == computePt(connectorPt)

\* The antenna spot route pushes for a connector point.
antennaSpot(connectorPt, shapeMargin) ==
    LET p == computePt(connectorPt)
    IN  CASE connectorPt.side = "top"    -> makePt(p.x + 0, p.y + (-shapeMargin))
          [] connectorPt.side = "right"  -> makePt(p.x + shapeMargin, p.y + 0)
          [] connectorPt.side = "bottom" -> makePt(p.x + 0, p.y + shapeMargin)
          [] connectorPt.side = "left"   -> makePt(p.x + (-shapeMargin), p.y + 0)

\* The check of the bounding boxes' collision: the shapes inflated by the
\* requested margin intersect.
marginsCollide(opts) ==
    intersects(inflate(fromRect(opts.pointA.shape), opts.shapeMargin, opts.shapeMargin),
               inflate(fromRect(opts.pointB.shape), opts.shapeMargin, opts.shapeMargin))

\* shapeMargin without the reset on a collision.
effectiveMargin_keep(opts) == opts.shapeMargin

\* shapeMargin after the check: reset to 0 on a collision.
effectiveMargin(opts) == IF marginsCollide(opts) THEN 0 ELSE opts.shapeMargin

\* inflatedA / inflatedB after the check: the shape itself on a collision.
inflatedShape(opts, cp) ==
    IF marginsCollide(opts) THEN fromRect(cp.shape)
    ELSE inflate(fromRect(cp.shape), opts.shapeMargin, opts.shapeMargin)

\* The obstacles with the nodes of the canvas left un-inflated.
obstaclesOf_notInflated(opts, shapeMargin, inflatedA, inflatedB) ==
    <<inflatedA, inflatedB>> \o [k \in 1..Len(opts.nodes) |-> fromRect(opts.nodes[k])]

\* The obstacles route hands to gridToSpots2: inflatedA, inflatedB and every
\* node of the canvas inflated by the margin.
obstaclesOf(opts, shapeMargin, inflatedA, inflatedB) ==
    <<inflatedA, inflatedB>> \o
    [k \in 1..Len(opts.nodes) |-> inflate(fromRect(opts.nodes[k]), shapeMargin, shapeMargin)]

\* Lines 862-968 of route: the locals the rest of the call uses.
routeSetup(opts) ==
    LET pointA == opts.pointA
        pointB == opts.pointB
        sideAVertical == isVerticalSide(pointA.side)
        sideBVertical == isVerticalSide(pointB.side)
        originA == computePt(pointA)
        originB == computePt(pointB)
        shapeMargin == effectiveMargin(opts)
        inflatedA == inflatedShape(opts, pointA)
        inflatedB == inflatedShape(opts, pointB)
        bounds == inflate(union(inflatedA, inflatedB),
                          opts.globalBoundsMargin, opts.globalBoundsMargin)
        verticals == SortAsc(
            <<inflatedA.left, right(inflatedA), inflatedB.left, right(inflatedB)>>
            \o (IF sideAVertical THEN <<originA.x>> ELSE <<>>)
            \o (IF sideBVertical THEN <<originB.x>> ELSE <<>>))
        horizontals == SortAsc(
            <<inflatedA.top, bottom(inflatedA), inflatedB.top, bottom(inflatedB)>>
            \o (IF sideAVertical THEN <<>> ELSE <<originA.y>>)
            \o (IF sideBVertical THEN <<>> ELSE <<originB.y>>))
        obstacles == obstaclesOf(opts, shapeMargin, inflatedA, inflatedB)
        spots == <<antennaSpot(pointA, shapeMargin), antennaSpot(pointB, shapeMargin)>>
                 \o gridToSpots2(pointA, pointB, shapeMargin, obstacles)
        created == createGraph(spots)
    IN  [locals |-> [shapeMargin |-> shapeMargin,
                     inflatedA |-> inflatedA,
                     inflatedB |-> inflatedB,
                     obstacles |-> obstacles,
                     start |-> computePt(pointA),
                     end |-> computePt(pointB)],
         graph |-> created.graph,
         origin |-> extrudeCp(pointA, shapeMargin),
         destination |-> extrudeCp(pointB, shapeMargin),
         byproduct |-> [spots |-> spots,
                        vRulers |-> verticals,
                        hRulers |-> horizontals,
                        grid |-> rulersToGrid(verticals, horizontals, bounds),
                        connections |-> created.connections]]

----------------------------------------------------------------------------
(* Inputs                                                                  *)

\* B lies 15 * k below A, k in 0..MaxDrop.
MaxDrop == 2

\* Spot coordinates of the graphs built directly: columns 0..MaxColumn.
MaxColumn == 2

\* Connector points computed directly: widths and heights 10 * k and
\* distances k, k in 0..MaxExtent.
MaxExtent == 2

Request(pointA, pointB, shapeMargin, others) ==
    [pointA |-> pointA, pointB |-> pointB, shapeMargin |-> shapeMargin,
     globalBoundsMargin |-> 10,
     globalBounds |-> Rectangle(-200, -200, 600, 600),
     nodes |-> others]

ShapeA == Rectangle(0, 0, 20, 10)

ShapeB(drop) == Rectangle(80, drop, 20, 10)

\* Four large nodes of the canvas that frame the region the two shapes lie
\* in, so that the spots left to route through are few.
Frame ==
    <<Rectangle(-1000, -1000, 979, 2000),
      Rectangle(131, -1000, 1000, 2000),
      Rectangle(-1000, -1000, 2000, 969),
      Rectangle(-1000, 91, 2000, 1000)>>

\* A node of the canvas next to A's right side, and one in the middle of the
\* corridor between A and B.
NearA == Rectangle(28, -2, 12, 14)

Middle == Rectangle(45, -10, 5, 30)

\* A's right side facing B's left side, nothing between them.
FacingRequests ==
    {Request(ConnectorPoint(ShapeA, "right", dA),
             ConnectorPoint(ShapeB(15 * k), "left", dB), m, Frame) :
        dA \in {0, 5}, dB \in {0, 5}, k \in 0..MaxDrop, m \in {5, 10}}

\* The same with a third rectangle in the corridor.
CorridorRequests ==
    {Request(ConnectorPoint(ShapeA, "right", dA),
             ConnectorPoint(ShapeB(15 * k), "left", dB), 5, Frame \o <<third>>) :
        dA \in {0, 5}, dB \in {0, 5}, k \in 0..MaxDrop, third \in {NearA, Middle}}
    \cup
    {Request(ConnectorPoint(ShapeA, "right", 5),
             ConnectorPoint(ShapeB(0), "left", 5), 10, Frame \o <<Middle>>)}

\* Every pair of sides, anchors at the start corner or one unit along.
SideRequests ==
    {Request(ConnectorPoint(ShapeA, sideA, d), ConnectorPoint(ShapeB(30), sideB, d), 10, Frame) :
        sideA \in Sides, sideB \in Sides, d \in {0, 1}}

\* Shapes so close that the margins collide or touch, and requests whose two
\* anchors are one point.
CloseRequests ==
    {Request(ConnectorPoint(ShapeA, "right", 5),
             ConnectorPoint(Rectangle(left, 0, 20, 10), "left", 5), m, Frame) :
        left \in {20, 30}, m \in {0, 5, 10}}
    \cup
    {Request(ConnectorPoint(ShapeA, "right", 5), ConnectorPoint(ShapeA, "right", 5), m, Frame) :
        m \in {0, 10}}

Requests == FacingRequests \cup CorridorRequests \cup SideRequests \cup CloseRequests

\* Spot coordinates for graphs built directly: columns 10, 20, 30 ... apart.
GridX(i) == 5 * i * (i + 1)

GridPoints == {makePt(GridX(i), y) : i \in 0..MaxColumn, y \in {0, 10}}

\* A set of points as a sequence, row by row.
SeqOf(S) ==
    [r \in 1..Cardinality(S) |->
        CHOOSE p \in S :
            Cardinality({q \in S : q.y < p.y \/ (q.y = p.y /\ q.x < p.x)}) = r - 1]

SpotSets == {SeqOf(S) : S \in SUBSET GridPoints}

\* Spot arrays with repeated and unordered points: a spot set followed by
\* nothing or by two more points of the grid.
SpotLists ==
    {s \o t : s \in SpotSets, t \in {<<>>} \cup {<<p, q>> : p \in GridPoints, q \in GridPoints}}

ConnectorPoints ==
    {ConnectorPoint(Rectangle(left, top, 10 * w, 10 * h), side, d) :
        left \in {0, 7}, top \in {0, 3}, w \in 0..MaxExtent, h \in 0..MaxExtent,
        side \in Sides, d \in 0..MaxExtent}

\* Point sequences handed to simplifyPath: every sequence of at most
\* MaxPathLen points of a 3 x 3 grid, so repeated points, reversals and
\* diagonal steps all occur.
MaxPathLen == 4

PathPoints == {makePt(x, y) : x \in {0, 5, 10}, y \in {0, 5, 10}}

Paths == UNION {[1..n -> PathPoints] : n \in 0..MaxPathLen}

\* Scenario requests: two 100 x 50 shapes with a 200-unit horizontal gap,
\* A's anchor on its right side and B's on its left side, both at offset d;
\* B is moved down by drop; shapeMargin 10 and no other shape.
Scenario(d, drop) ==
    Request(ConnectorPoint(Rectangle(0, 0, 100, 50), "right", d),
            ConnectorPoint(Rectangle(300, drop, 100, 50), "left", d), 10, <<>>)

ScenarioRequests ==
    {Scenario(0, 0), Scenario(25, 0), Scenario(25, 150), Scenario(25, -150)}

\* The facing requests with the two connector points exchanged: the route
\* runs from the right-hand shape to the left-hand one.
ReverseRequests ==
    {[o EXCEPT !.pointA = o.pointB, !.pointB = o.pointA] : o \in FacingRequests}

\* Requests of a session of several route calls: a straight one, the same
\* with a node put in the corridor, and one whose anchors are one point.
SessionRequests ==
    {Request(ConnectorPoint(ShapeA, "right", 5), ConnectorPoint(ShapeB(0), "left", 5), 5, Frame),
     Request(ConnectorPoint(ShapeA, "right", 5), ConnectorPoint(ShapeB(0), "left", 5), 5,
             Frame \o <<Middle>>),
     Request(ConnectorPoint(ShapeA, "right", 5), ConnectorPoint(ShapeA, "right", 5), 10, Frame)}

\* The most route calls of one session.
MaxCalls == 3

----------------------------------------------------------------------------
(* State                                                                   *)

VARIABLES
    pc,              \* "idle", "visit", "adjacent" or "done"
    request,         \* <<opts>> of the route call in progress or last made
    locals,          \* locals of route: margin, inflated shapes, obstacles, anchors
    byproduct,       \* OrthogonalConnector.byproduct
    graph,           \* the PointGraph: node coordinate -> adjacentNodes
    pointNodes,      \* node coordinate -> [distance, shortestPath]
    call,            \* the call in progress or last made: [kind, ...]
    settledNodes,    \* Set of calculateShortestPathFromSource
    unsettledNodes,  \* Set of calculateShortestPathFromSource, insertion order
    currentNode,     \* <<node>> taken by the while loop
    adjacentIndex,   \* position of the for loop in currentNode.adjacentNodes
    pathConnector,   \* result of route's first shortestPath call
    result,          \* what the call returned or threw
    history          \* the route calls that have returned so far, oldest
                     \* first, each as [request, result]

vars == <<pc, request, locals, byproduct, graph, pointNodes, call, settledNodes,
          unsettledNodes, currentNode, adjacentIndex, pathConnector, result, history>>

searchVars == <<settledNodes, unsettledNodes, currentNode, adjacentIndex>>

routeVars == <<request, locals, byproduct, pathConnector, history>>

NoResult == [kind |-> "none", points |-> <<>>]

Returned(points) == [kind |-> "return", points |-> points]

Thrown(message) == [kind |-> "throw", points |-> <<>>, message |-> message]

Init ==
    /\ pc = "idle"
    /\ request = <<>>
    /\ locals = <<>>
    /\ byproduct = [hRulers |-> <<>>, vRulers |-> <<>>, spots |-> <<>>,
                    grid |-> <<>>, connections |-> <<>>]
    /\ graph = <<>>
    /\ pointNodes = <<>>
    /\ call = [kind |-> "none"]
    /\ settledNodes = {}
    /\ unsettledNodes = <<>>
    /\ currentNode = <<>>
    /\ adjacentIndex = 0
    /\ pathConnector = <<>>
    /\ result = NoResult
    /\ history = <<>>

\* The nodes of a graph that keep the fields a node of the same coordinate
\* had in the search before.
freshNodes_kept(g) ==
    [n \in DOMAIN g |-> IF n \in DOMAIN pointNodes THEN pointNodes[n] ELSE PointNode]

\* new PointNode(p) for every node createGraph adds: the fields of the
\* nodes of a graph just built.
freshNodes(g) == [n \in DOMAIN g |-> PointNode]

\* The byproduct with the spots and connections of this call pushed behind
\* the ones it held.
byproductOf_accumulated(setup) ==
    [setup.byproduct EXCEPT !.spots = byproduct.spots \o setup.byproduct.spots,
                            !.connections = byproduct.connections \o setup.byproduct.connections]

\* OrthogonalConnector.byproduct after the five assignments of lines 964-968.
byproductOf(setup) == setup.byproduct

\* The check of shortestPath without the test of the destination node.
endpointMissing_originOnly(g, origin, destination) == origin \notin DOMAIN g

\* !originNode || !destinationNode of shortestPath: graph.get returns null
\* for a coordinate that has no node.
endpointMissing(g, origin, destination) ==
    origin \notin DOMAIN g \/ destination \notin DOMAIN g

\* shortestPath(g, origin, destination) up to the start of the while loop:
\* it throws when an endpoint has no node, else sets source.distance = 0 and
\* starts the search with unsettledNodes = {source}.
EnterShortestPath(kind, g, nds, origin, destination) ==
    /\ call' = [kind |-> kind, origin |-> origin, destination |-> destination]
    /\ graph' = g
    /\ currentNode' = <<>>
    /\ adjacentIndex' = 0
    /\ settledNodes' = {}
    /\ IF endpointMissing(g, origin, destination)
       THEN /\ pc' = "done"
            /\ pointNodes' = nds
            /\ unsettledNodes' = <<>>
            /\ result' = Thrown("Origin node not found")
       ELSE /\ pc' = "visit"
            /\ pointNodes' = [nds EXCEPT ![origin].distance = 0]
            /\ unsettledNodes' = <<origin>>
            /\ result' = NoResult

\* route(opts), lines 862-970: rulers, spots, graph, byproduct, and the
\* first shortestPath call up to its search.
RouteStart(o) ==
    \E setup \in {routeSetup(o)} :
        /\ request' = <<o>>
        /\ locals' = setup.locals
        /\ byproduct' = byproductOf(setup)
        /\ pathConnector' = <<>>
        /\ UNCHANGED history
        /\ EnterShortestPath("first", setup.graph, freshNodes(setup.graph),
                             setup.origin, setup.destination)

\* The first route call.
Route(o) ==
    /\ pc = "idle"
    /\ RouteStart(o)

\* A route call made after an earlier one has returned.
RouteAgain(o) ==
    /\ pc = "done"
    /\ call.kind \in {"first", "second"}
    /\ Len(history) < MaxCalls
    /\ RouteStart(o)

\* What a route call leaves behind: the shortestPath call that ran last, the
\* state of its search, the result of the first call and what route
\* returned or threw.
RouteOutcome(kind, setup, search, path, outcome) ==
    [call |-> [kind |-> kind, origin |-> setup.origin, destination |-> setup.destination],
     search |-> search,
     pathConnector |-> path,
     result |-> outcome]

\* route from line 973 on, the second search done.
routeAfterSecond(setup, first, second) ==
    LET path == first.nodes[setup.destination].shortestPath
    IN  IF second.failed THEN RouteOutcome("second", setup, second, path, Thrown("TypeError"))
        ELSE RouteOutcome("second", setup, second, path,
                 Returned(simplifyPath(<<setup.locals.start>>
                                       \o second.nodes[setup.destination].shortestPath
                                       \o <<setup.locals.end>>)))

\* route from line 970 on, the first search done: the second shortestPath
\* call works on the nodes as the first one left them.
routeAfterFirst(setup, g, first) ==
    LET path == first.nodes[setup.destination].shortestPath
    IN  IF first.failed THEN RouteOutcome("first", setup, first, <<>>, Thrown("TypeError"))
        ELSE IF Len(path) = 0 THEN RouteOutcome("first", setup, first, path, Returned(<<>>))
        ELSE CHOOSE r \in {routeAfterSecond(setup, first, second) :
                              second \in {calculateShortestPathFromSource(g, first.nodes,
                                                                          setup.origin)}} : TRUE

\* route from line 970 on, g being the graph written out.
routeSearches(setup, g) ==
    IF endpointMissing(g, setup.origin, setup.destination)
    THEN RouteOutcome("first", setup,
                      [nodes |-> freshNodes(g), unsettled |-> <<>>,
                       settled |-> [n \in DOMAIN g |-> FALSE], current |-> <<>>,
                       index |-> 0, failed |-> FALSE],
                      <<>>, Thrown("Origin node not found"))
    ELSE CHOOSE r \in {routeAfterFirst(setup, g, first) :
                          first \in {calculateShortestPathFromSource(
                                         g, freshNodes(g), setup.origin)}} : TRUE

\* route(opts) from its first line to its return, as one step.
RouteCall(o) ==
    /\ pc = "idle"
    /\ \E setup \in {routeSetup(o)} :
       \E g \in {Table(setup.graph)} :
       \E run \in {routeSearches(setup, g)} :
           /\ request' = <<o>>
           /\ locals' = setup.locals
           /\ byproduct' = byproductOf(setup)
           /\ graph' = g
           /\ call' = run.call
           /\ pointNodes' = run.search.nodes
           /\ settledNodes' = {n \in DOMAIN g : run.search.settled[n]}
           /\ unsettledNodes' = run.search.unsettled
           /\ currentNode' = run.search.current
           /\ adjacentIndex' = run.search.index
           /\ pathConnector' = run.pathConnector
           /\ result' = run.result
           /\ history' = IF run.result.kind = "return"
                          THEN Append(history, [request |-> o, result |-> run.result])
                          ELSE history
           /\ pc' = "done"

\* createGraph(spots) and shortestPath(graph, origin, destination) on the
\* graph it returns, up to the search.
GraphCall(spots, origin, destination) ==
    /\ pc = "idle"
    /\ \E created \in {createGraph(spots)} :
           EnterShortestPath("direct", created.graph, freshNodes(created.graph),
                             origin, destination)
    /\ UNCHANGED routeVars

\* createGraph(spots)
CreateGraph(spots) ==
    /\ pc = "idle"
    /\ \E created \in {createGraph(spots)} :
           /\ graph' = created.graph
           /\ pointNodes' = freshNodes(created.graph)
           /\ result' = Returned(created.connections)
    /\ call' = [kind |-> "createGraph", spots |-> spots]
    /\ pc' = "done"
    /\ UNCHANGED <<searchVars, routeVars>>

\* getBend(a, b, c)
Bend(a, b, c) ==
    /\ pc = "idle"
    /\ call' = [kind |-> "getBend", a |-> a, b |-> b, c |-> c]
    /\ result' = IF getBend(a, b, c) = "Error: Nope" THEN Thrown("Nope")
                 ELSE [kind |-> "return", points |-> <<>>, bend |-> getBend(a, b, c)]
    /\ pc' = "done"
    /\ UNCHANGED <<graph, pointNodes, searchVars, routeVars>>

\* computePt(p)
ComputePoint(p) ==
    /\ pc = "idle"
    /\ call' = [kind |-> "computePt", p |-> p]
    /\ result' = Returned(<<computePt(p)>>)
    /\ pc' = "done"
    /\ UNCHANGED <<graph, pointNodes, searchVars, routeVars>>

\* simplifyPath(points)
Simplify(points) ==
    /\ pc = "idle"
    /\ call' = [kind |-> "simplifyPath", points |-> points]
    /\ result' = IF bendThrows(points) THEN Thrown("Nope")
                 ELSE Returned(simplifyPath(points))
    /\ pc' = "done"
    /\ UNCHANGED <<graph, pointNodes, searchVars, routeVars>>

\* while (unsettledNodes.size !== 0): take the lowest-distance node.
Visit ==
    /\ pc = "visit"
    /\ unsettledNodes # <<>>
    /\ LET lowest == getLowestDistanceNode(pointNodes, unsettledNodes)
       IN  IF lowest = <<>>
           THEN /\ pc' = "done"
                /\ result' = Thrown("TypeError")
                /\ UNCHANGED <<unsettledNodes, currentNode, adjacentIndex>>
           ELSE /\ pc' = "adjacent"
                /\ currentNode' = lowest
                /\ unsettledNodes' = SetDelete(unsettledNodes, lowest[1])
                /\ adjacentIndex' = 1
                /\ UNCHANGED result
    /\ UNCHANGED <<graph, pointNodes, call, settledNodes, routeVars>>

\* One turn of for (const [adjacentNode, edgeWeight] of currentNode.adjacentNodes).
Relax ==
    /\ pc = "adjacent"
    /\ adjacentIndex <= Len(graph[currentNode[1]])
    /\ LET adjacent == graph[currentNode[1]][adjacentIndex]
       IN  IF adjacent.node \notin settledNodes
           THEN /\ pointNodes' = calculateMinimumDistance(pointNodes, adjacent.node,
                                                          adjacent.weight, currentNode[1])
                /\ unsettledNodes' = SetAdd(unsettledNodes, adjacent.node)
           ELSE UNCHANGED <<pointNodes, unsettledNodes>>
    /\ adjacentIndex' = adjacentIndex + 1
    /\ UNCHANGED <<pc, graph, call, settledNodes, currentNode, result, routeVars>>

\* settledNodes.add(currentNode) after the for loop.
Settle ==
    /\ pc = "adjacent"
    /\ adjacentIndex > Len(graph[currentNode[1]])
    /\ settledNodes' = settledNodes \cup {currentNode[1]}
    /\ pc' = "visit"
    /\ UNCHANGED <<graph, pointNodes, call, unsettledNodes, currentNode, adjacentIndex,
                   result, routeVars>>

\* The path of the destination with the destination itself appended.
ReturnedPath_withDestination ==
    Append(pointNodes[call.destination].shortestPath, call.destination)

\* destinationNode.shortestPath.map((n) => n.data)
ReturnedPath == pointNodes[call.destination].shortestPath

\* A search that also stops as soon as the destination is settled.
SearchOver_atDestination ==
    pc = "visit" /\ (unsettledNodes = <<>> \/ call.destination \in settledNodes)

\* The search is over and shortestPath is about to return.
SearchOver == pc = "visit" /\ unsettledNodes = <<>>

\* The first shortestPath call of route returns a path: route calls
\* shortestPath on the same graph once more (line 973).
RouteSecondCall ==
    /\ SearchOver
    /\ call.kind = "first"
    /\ Len(ReturnedPath) > 0
    /\ pathConnector' = ReturnedPath
    /\ EnterShortestPath("second", graph, pointNodes, call.origin, call.destination)
    /\ UNCHANGED <<request, locals, byproduct, history>>

\* The first shortestPath call of route returns no path: route returns [].
RouteReturnEmpty ==
    /\ SearchOver
    /\ call.kind = "first"
    /\ Len(ReturnedPath) = 0
    /\ pathConnector' = ReturnedPath
    /\ result' = Returned(<<>>)
    /\ history' = Append(history, [request |-> request[1], result |-> result'])
    /\ pc' = "done"
    /\ UNCHANGED <<request, locals, byproduct, graph, pointNodes, call, searchVars>>

\* The second call returns: simplifyPath([start, ...path, end]).
RouteReturnPath ==
    /\ SearchOver
    /\ call.kind = "second"
    /\ result' = Returned(simplifyPath(<<locals.start>> \o ReturnedPath \o <<locals.end>>))
    /\ history' = Append(history, [request |-> request[1], result |-> result'])
    /\ pc' = "done"
    /\ UNCHANGED <<graph, pointNodes, call, searchVars, request, locals, byproduct,
                   pathConnector>>

\* shortestPath called directly returns the path of the destination.
GraphReturn ==
    /\ SearchOver
    /\ call.kind = "direct"
    /\ result' = Returned(ReturnedPath)
    /\ pc' = "done"
    /\ UNCHANGED <<graph, pointNodes, call, searchVars, routeVars>>

----------------------------------------------------------------------------
(* Specifications                                                          *)

\* Route calls.
Next ==
    \/ \E o \in Requests : Route(o)
    \/ Visit
    \/ Relax
    \/ Settle
    \/ RouteSecondCall
    \/ RouteReturnEmpty
    \/ RouteReturnPath

Spec == Init /\ [][Next]_vars

\* createGraph and shortestPath on arbitrary spot sets and endpoints.
GraphNext ==
    \/ \E spots \in SpotSets, origin \in GridPoints, destination \in GridPoints :
          GraphCall(spots, origin, destination)
    \/ Visit
    \/ Relax
    \/ Settle
    \/ GraphReturn

GraphSpec == Init /\ [][GraphNext]_vars

\* The same with the steps of a call taken until it returns or throws:
\* shortestPath is synchronous and runs without suspension.
SearchFairSpec ==
    /\ GraphSpec
    /\ WF_vars(Visit)
    /\ WF_vars(Relax)
    /\ WF_vars(Settle)
    /\ WF_vars(GraphReturn)

\* createGraph on spot arrays.
BuildNext == \E spots \in SpotLists : CreateGraph(spots)

BuildSpec == Init /\ [][BuildNext]_vars

\* computePt on connector points.
PointNext == \E p \in ConnectorPoints : ComputePoint(p)

PointSpec == Init /\ [][PointNext]_vars

\* simplifyPath on point sequences.
SimplifyNext == \E points \in Paths : Simplify(points)

SimplifySpec == Init /\ [][SimplifyNext]_vars

\* getBend on point triples and simplifyPath on point sequences.
BendNext ==
    \/ \E a \in PathPoints, b \in PathPoints, c \in PathPoints : Bend(a, b, c)
    \/ \E points \in Paths : Simplify(points)

BendSpec == Init /\ [][BendNext]_vars

\* Route calls taken as single steps, the scenario requests included.
CallNext == \E o \in Requests \cup ReverseRequests \cup ScenarioRequests : RouteCall(o)

CallSpec == Init /\ [][CallNext]_vars

\* Sessions: route calls one after another.
SessionNext ==
    \/ \E o \in SessionRequests : Route(o)
    \/ \E o \in SessionRequests : RouteAgain(o)
    \/ Visit
    \/ Relax
    \/ Settle
    \/ RouteSecondCall
    \/ RouteReturnEmpty
    \/ RouteReturnPath

SessionSpec == Init /\ [][SessionNext]_vars

----------------------------------------------------------------------------
(* Properties                                                              *)

\* A route call has returned or thrown.
RouteDone == pc = "done" /\ call.kind \in {"first", "second"}

\* A route call has returned a polyline of at least one point.
RoutedPolyline == RouteDone /\ result.kind = "return" /\ Len(result.points) > 0

AnchorA == computePt(request[1].pointA)

AnchorB == computePt(request[1].pointB)

\* The shapes of the request, inflated by the requested margin, intersect.
RequestCollides ==
    intersects(inflate(request[1].pointA.shape, request[1].shapeMargin, request[1].shapeMargin),
               inflate(request[1].pointB.shape, request[1].shapeMargin, request[1].shapeMargin))

\* The nodes of S and their neighbours in g.
Hop(g, S) == S \cup UNION {{g[n][k].node : k \in 1..Len(g[n])} : n \in S}

\* The nodes of g that a chain of edges connects to a node of S.
RECURSIVE Reach(_, _)
Reach(g, S) ==
    LET T == Hop(g, Hop(g, Hop(g, Hop(g, S))))
    IN  IF T = S THEN S ELSE Reach(g, T)

\* The third rectangle of a corridor request, and the same inflated by the
\* margin of the request.
Third == request[1].nodes[Len(request[1].nodes)]

InflatedThird == inflate(Third, request[1].shapeMargin, request[1].shapeMargin)

\* A corridor request: a third rectangle between A's right side and B's left
\* side, across the straight line between the two, the inflated A and B not
\* intersecting.
CorridorRequest ==
    /\ request # <<>>
    /\ Len(request[1].nodes) > Len(Frame)
    /\ ~RequestCollides
    /\ right(request[1].pointA.shape) < Third.left
    /\ right(Third) < request[1].pointB.shape.left

\* p and q differ in exactly one coordinate.
SharesExactlyOne(p, q) == (p.x = q.x /\ p.y # q.y) \/ (p.x # q.x /\ p.y = q.y)

\* C1: every two consecutive points of a non-empty polyline that route
\* returns share exactly one coordinate: each segment is horizontal or
\* vertical, none is diagonal and none has length zero.
C1_SegmentsOrthogonal ==
    RoutedPolyline =>
        \A i \in 1..(Len(result.points) - 1) :
            SharesExactlyOne(result.points[i], result.points[i + 1])

\* C2 as stated: for a corridor request whose third rectangle contains
\* neither anchor and neither antenna, every point of the polyline route
\* returns lies outside that rectangle inflated by shapeMargin.
C2_OutsideInflated_AsStated ==
    (/\ CorridorRequest
     /\ RouteDone
     /\ result.kind = "return"
     /\ \A p \in {AnchorA, AnchorB, call.origin, call.destination} : ~contains(Third, p))
    => \A i \in 1..Len(result.points) : ~contains(InflatedThird, result.points[i])

\* C2: for a corridor request whose third rectangle, inflated by
\* shapeMargin, contains neither anchor and neither antenna, every point of
\* the polyline route returns lies outside that inflated rectangle.
C2_OutsideInflated ==
    (/\ CorridorRequest
     /\ RouteDone
     /\ result.kind = "return"
     /\ \A p \in {AnchorA, AnchorB, call.origin, call.destination} : ~contains(InflatedThird, p))
    => \A i \in 1..Len(result.points) : ~contains(InflatedThird, result.points[i])

\* A corridor request whose inflated third rectangle holds no anchor and no
\* antenna has been routed around the rectangle.
C2_Witness ==
    /\ CorridorRequest
    /\ RoutedPolyline
    /\ \A p \in {AnchorA, AnchorB, call.origin, call.destination} : ~contains(InflatedThird, p)
    /\ Len(result.points) >= 4

\* C3: what route returns is the empty sequence or a polyline that starts at
\* computePt(pointA) and ends at computePt(pointB).
C3_EmptyOrBothAnchors ==
    RouteDone =>
        /\ result.kind = "return"
        /\ \/ result.points = <<>>
           \/ /\ result.points[1] = AnchorA
              /\ result.points[Len(result.points)] = AnchorB

\* route has returned a polyline with a bend between the two anchors.
C3_Witness == RoutedPolyline /\ Len(result.points) >= 3

\* C4: when the destination antenna is a node of the graph that no chain of
\* edges connects to the origin antenna node, the search raises no error and
\* route returns the empty sequence.
C4_UnreachableIsEmpty ==
    (/\ RouteDone
     /\ call.origin \in DOMAIN graph
     /\ call.destination \in DOMAIN graph
     /\ call.destination \notin Reach(graph, {call.origin}))
    => result = Returned(<<>>)

\* route has returned for a graph whose destination node has neighbours but
\* no chain of edges to the origin.
C4_Witness ==
    /\ RouteDone
    /\ call.destination \in DOMAIN graph
    /\ Len(graph[call.origin]) > 0
    /\ Len(graph[call.destination]) > 0
    /\ call.destination \notin Reach(graph, {call.origin})
    /\ result = Returned(<<>>)

\* C5: shortestPath throws exactly when the origin or the destination has no
\* node in the graph, and then before the search: no node is settled and
\* every node keeps the distance and the empty path it had.
C5_EndpointNotFound ==
    call.kind = "direct" =>
        /\ (result.kind = "throw") <=>
               (call.origin \notin DOMAIN graph \/ call.destination \notin DOMAIN graph)
        /\ result.kind = "throw" =>
               /\ settledNodes = {}
               /\ unsettledNodes = <<>>
               /\ \A n \in DOMAIN pointNodes : pointNodes[n] = PointNode

\* shortestPath has thrown on a graph that has the origin, with neighbours,
\* but not the destination.
C5_Witness ==
    /\ call.kind = "direct"
    /\ result.kind = "throw"
    /\ call.origin \in DOMAIN graph
    /\ Len(graph[call.origin]) > 0
    /\ call.destination \notin DOMAIN graph

\* C6: when pointA and pointB resolve to one anchor coordinate, route does
\* not fail and returns a path of 1 or 2 points, not the empty sequence.
C6_IdenticalAnchors ==
    (RouteDone /\ AnchorA = AnchorB) =>
        /\ result.kind = "return"
        /\ Len(result.points) \in {1, 2}

\* route has returned the empty sequence for two anchors that are one point.
C6_Reached == RouteDone /\ AnchorA = AnchorB /\ result = Returned(<<>>)

\* The edges of the two shapes of the request, un-inflated.
ShapeVerticals ==
    {request[1].pointA.shape.left, right(request[1].pointA.shape),
     request[1].pointB.shape.left, right(request[1].pointB.shape)}

ShapeHorizontals ==
    {request[1].pointA.shape.top, bottom(request[1].pointA.shape),
     request[1].pointB.shape.top, bottom(request[1].pointB.shape)}

\* The margin the call works with is m: the two inflated shapes and every
\* obstacle are the rectangles of the request inflated by m, and each
\* antenna lies m away from its anchor.
WorksWithMargin(m) ==
    /\ locals.shapeMargin = m
    /\ locals.inflatedA = inflate(request[1].pointA.shape, m, m)
    /\ locals.inflatedB = inflate(request[1].pointB.shape, m, m)
    /\ Len(locals.obstacles) = Len(request[1].nodes) + 2
    /\ locals.obstacles[1] = locals.inflatedA
    /\ locals.obstacles[2] = locals.inflatedB
    /\ \A k \in 1..Len(request[1].nodes) :
           locals.obstacles[k + 2] = inflate(request[1].nodes[k], m, m)
    /\ Abs(call.origin.x - AnchorA.x) + Abs(call.origin.y - AnchorA.y) = m
    /\ Abs(call.destination.x - AnchorB.x) + Abs(call.destination.y - AnchorB.y) = m
    /\ byproduct.spots[1] = call.origin
    /\ byproduct.spots[2] = call.destination

\* C7: when shape A and shape B, each inflated by the requested shapeMargin,
\* intersect, the call works with margin 0: the rulers are the un-inflated
\* edges of the shapes (and the anchor rulers), every obstacle is inflated by
\* 0 and each antenna is its anchor; otherwise it works with the requested
\* shapeMargin.
C7_EffectiveMargin ==
    request # <<>> =>
        IF RequestCollides
        THEN /\ WorksWithMargin(0)
             /\ call.origin = AnchorA
             /\ call.destination = AnchorB
             /\ ShapeVerticals \subseteq Range(byproduct.vRulers)
             /\ Range(byproduct.vRulers) \subseteq ShapeVerticals \cup {AnchorA.x, AnchorB.x}
             /\ ShapeHorizontals \subseteq Range(byproduct.hRulers)
             /\ Range(byproduct.hRulers) \subseteq ShapeHorizontals \cup {AnchorA.y, AnchorB.y}
        ELSE WorksWithMargin(request[1].shapeMargin)

\* route has returned a polyline for shapes that a positive requested margin
\* makes intersect.
C7_Witness ==
    /\ RoutedPolyline
    /\ request[1].shapeMargin > 0
    /\ RequestCollides
    /\ locals.shapeMargin = 0

\* C8: computePt yields y = shape.top for side top and y = shape.bottom for
\* side bottom, with x = shape.left + distance in both cases; for sides left
\* and right it yields y = shape.top + distance, with x = shape.left and
\* x = shape.right.
C8_ComputePointOffsets ==
    call.kind = "computePt" =>
        result.points[1] =
            CASE call.p.side = "top"    -> makePt(call.p.shape.left + call.p.distance, call.p.shape.top)
              [] call.p.side = "bottom" -> makePt(call.p.shape.left + call.p.distance,
                                                  bottom(call.p.shape))
              [] call.p.side = "left"   -> makePt(call.p.shape.left, call.p.shape.top + call.p.distance)
              [] call.p.side = "right"  -> makePt(right(call.p.shape),
                                                  call.p.shape.top + call.p.distance)

\* computePt has returned, for a point one unit along the top of a shape of
\* width 20, the top right corner.
C8_Reached ==
    /\ call.kind = "computePt"
    /\ call.p = ConnectorPoint(Rectangle(0, 0, 20, 10), "top", 1)
    /\ result.points[1] = makePt(20, 0)

\* C9: no edge of the graph that createGraph builds connects two points that
\* differ in both coordinates, and none connects a node to itself.
C9_NoDiagonalEdges ==
    \A n \in DOMAIN graph :
        \A k \in 1..Len(graph[n]) :
            /\ graph[n][k].node # n
            /\ graph[n][k].node.x = n.x \/ graph[n][k].node.y = n.y

\* A graph built directly has a node with three neighbours.
C9_Witness ==
    /\ call.kind = "direct"
    /\ \E n \in DOMAIN graph : Len(graph[n]) = 3

\* The recorded path of node n: origin first, ending with n itself.
RecordedPath(n) == Append(pointNodes[n].shortestPath, n)

\* C10: at every step of the search and at its end, the best distances of
\* the nodes along the recorded predecessor path of any reached node, origin
\* first and the node itself last, are non-decreasing.
C10_DistancesNonDecreasing ==
    \A n \in DOMAIN pointNodes :
        pointNodes[n].distance < MAX_SAFE_INTEGER =>
            /\ RecordedPath(n)[1] = call.origin
            /\ \A i \in 1..(Len(RecordedPath(n)) - 1) :
                   pointNodes[RecordedPath(n)[i]].distance
                       <= pointNodes[RecordedPath(n)[i + 1]].distance

\* In the middle of a search a node is reached through a path with a bend.
C10_Witness ==
    /\ pc = "adjacent"
    /\ \E n \in DOMAIN pointNodes :
           /\ Len(pointNodes[n].shortestPath) >= 3
           /\ pointNodes[n].distance > 100

\* A simplifyPath call has returned.
Simplified == pc = "done" /\ call.kind = "simplifyPath"

\* C11: simplifyPath is idempotent: simplifying the sequence that a
\* simplifyPath call returned gives that sequence again.
C11_SimplifyIdempotent ==
    Simplified => simplifyPath(result.points) = result.points

\* Three points on one vertical or on one horizontal line.
CollinearOnAxis(a, b, c) == (a.x = b.x /\ b.x = c.x) \/ (a.y = b.y /\ b.y = c.y)

\* The first point of P, the last point of P and the interior points whose
\* triple in P is not collinear on one axis, in the order of P.
BendsOf(P) ==
    LET positions == SelectSeq([i \in 1..Len(P) |-> i],
                               LAMBDA i : \/ i = 1
                                          \/ i = Len(P)
                                          \/ ~CollinearOnAxis(P[i - 1], P[i], P[i + 1]))
    IN  [k \in 1..Len(positions) |-> P[positions[k]]]

Corner == <<makePt(0, 0), makePt(0, 10), makePt(10, 10)>>

CornerWithMidpoint == <<makePt(0, 0), makePt(0, 5), makePt(0, 10), makePt(10, 10)>>

\* C12: simplifyPath returns a sequence of at most two points unchanged;
\* of a longer one it returns, in order, the first point, the last point
\* and exactly the interior points whose (previous, current, next) triple
\* is not collinear on one axis.  [(0,0),(0,10),(10,10)] is unchanged and
\* [(0,0),(0,5),(0,10),(10,10)] loses only (0,5).
C12_SimplifyKeepsBends ==
    Simplified =>
        /\ Len(call.points) <= 2 => result = Returned(call.points)
        /\ Len(call.points) >= 3 => result = Returned(BendsOf(call.points))
        /\ call.points = Corner => result = Returned(Corner)
        /\ call.points = CornerWithMidpoint => result = Returned(Corner)

C12_Witness ==
    /\ Simplified
    /\ call.points = CornerWithMidpoint
    /\ result = Returned(Corner)

\* The request of the route call in progress or last made is Scenario(d, drop).
ScenarioCall(d, drop) == request = <<Scenario(d, drop)>>

\* C13: for two 100 x 50 shapes 200 apart horizontally, anchors on the
\* facing sides at equal y, shapeMargin 10 and no other shape, route returns
\* exactly two points: anchor A, then anchor B, on one horizontal line.
C13_StraightSegment ==
    \A d \in {0, 25} :
        RouteDone /\ ScenarioCall(d, 0) =>
            /\ result = Returned(<<AnchorA, AnchorB>>)
            /\ AnchorA = makePt(100, d)
            /\ AnchorB = makePt(300, d)

C13_Witness ==
    /\ RouteDone
    /\ ScenarioCall(25, 0)
    /\ result = Returned(<<makePt(100, 25), makePt(300, 25)>>)

\* C14: with shape B of the scenario moved vertically by 150, the polyline
\* route returns has exactly four points: the two anchors and two interior
\* points, each of them a bend.
C14_TwoBends ==
    \A drop \in {-150, 150} :
        RouteDone /\ ScenarioCall(25, drop) =>
            /\ result.kind = "return"
            /\ Len(result.points) = 4
            /\ result.points[1] = AnchorA
            /\ result.points[4] = AnchorB
            /\ \A i \in {2, 3} :
                   getBend(result.points[i - 1], result.points[i], result.points[i + 1])
                       \in {"n", "e", "s", "w"}

C14_Witness ==
    /\ RouteDone
    /\ ScenarioCall(25, 150)
    /\ result = Returned(<<makePt(100, 25), makePt(280, 25), makePt(280, 175), makePt(300, 175)>>)

\* What a route call for request o leaves behind when it is the only call
\* ever made.
SingleCall(o) ==
    CHOOSE r \in UNION {{[run |-> routeSearches(setup, g), byproduct |-> setup.byproduct] :
                            g \in {Table(setup.graph)}} : setup \in {routeSetup(o)}} : TRUE

SingleCalls == Table([o \in SessionRequests |-> SingleCall(o)])

\* A shortestPath call of route has just set source.distance = 0.
FirstSearchStarts ==
    pc = "visit" /\ call.kind = "first" /\ currentNode = <<>> /\ settledNodes = {}

\* C15: in any sequence of route calls, two calls with equal requests have
\* returned equal polylines, whatever calls were made between them, every
\* call has returned what a single call with its request returns, and the
\* first search of every call starts on nodes that carry no distance and no
\* predecessor path of an earlier call.
C15_RouteIsPure ==
    /\ \A i, j \in 1..Len(history) :
           history[i].request = history[j].request => history[i].result = history[j].result
    /\ \A i \in 1..Len(history) :
           history[i].result = SingleCalls[history[i].request].run.result
    /\ FirstSearchStarts =>
           \A n \in DOMAIN pointNodes :
               pointNodes[n] = IF n = call.origin THEN [PointNode EXCEPT !.distance = 0]
                               ELSE PointNode

\* Three calls have returned, the first and the third with one request and a
\* non-empty polyline, the second with another request and another polyline.
C15_Witness ==
    /\ Len(history) = 3
    /\ history[1].request = history[3].request
    /\ history[2].request # history[1].request
    /\ Len(history[1].result.points) > 0
    /\ Len(history[2].result.points) > 0
    /\ history[2].result # history[1].result

\* s is in ascending order.
Ascending(s) == \A k \in 1..(Len(s) - 1) : s[k] <= s[k + 1]

\* C16: after any sequence of route calls the byproduct holds the rulers,
\* spots, grid cells and connections computed by the most recent call,
\* nothing of an earlier call, and both ruler sequences are ascending.
C16_SnapshotOfLastCall ==
    request # <<>> =>
        /\ byproduct = SingleCalls[request[1]].byproduct
        /\ Ascending(byproduct.vRulers)
        /\ Ascending(byproduct.hRulers)

\* A call has returned after an earlier call with another request, whose
\* byproduct had other spots.
C16_Witness ==
    /\ RouteDone
    /\ Len(history) >= 2
    /\ history[Len(history)].request = request[1]
    /\ history[Len(history) - 1].request # request[1]
    /\ SingleCalls[history[Len(history) - 1].request].byproduct.spots # byproduct.spots

\* The antennas of the request under the effective shape margin.
AntennaA == extrudeCp(request[1].pointA, locals.shapeMargin)

AntennaB == extrudeCp(request[1].pointB, locals.shapeMargin)

\* Shape A, shape B and every other shape of the request, each inflated by
\* the effective shape margin.
InflatedShapes ==
    {inflate(shape, locals.shapeMargin, locals.shapeMargin) :
        shape \in {request[1].pointA.shape, request[1].pointB.shape} \cup Range(request[1].nodes)}

\* p lies in r, boundary included.
Within(r, p) ==
    r.left <= p.x /\ p.x <= r.left + r.width /\ r.top <= p.y /\ p.y <= r.top + r.height

\* C17: in every route call the spots handed to createGraph contain both
\* antennas, so both are nodes of the graph, and every spot other than the
\* two antennas lies outside every inflated shape, boundary included.  The
\* spots do not change during a call: they are looked at when its first
\* search starts and when it has ended.
C17_SpotsOutsideObstacles ==
    FirstSearchStarts \/ RouteDone =>
        /\ AntennaA \in Range(byproduct.spots)
        /\ AntennaB \in Range(byproduct.spots)
        /\ AntennaA \in DOMAIN graph
        /\ AntennaB \in DOMAIN graph
        /\ \A k \in 1..Len(byproduct.spots) :
               byproduct.spots[k] \notin {AntennaA, AntennaB} =>
                   \A r \in InflatedShapes : ~Within(r, byproduct.spots[k])

\* A call whose antenna A lies inside the inflated third shape and is a
\* spot all the same, next to spots that passed the filter.
C17_Witness ==
    /\ RouteDone
    /\ Len(request[1].nodes) = 5
    /\ Within(InflatedThird, AntennaA)
    /\ AntennaA \in Range(byproduct.spots)
    /\ Len(byproduct.spots) > 2

\* A shortestPath call made on a graph directly has finished its search.
SearchFinished ==
    call.kind = "direct" /\ (SearchOver \/ (pc = "done" /\ result.kind = "return"))

\* The nodes the search has reached, the origin left out.
ReachedNodes ==
    {v \in DOMAIN pointNodes : v # call.origin /\ pointNodes[v].distance < MAX_SAFE_INTEGER}

\* The last node of v's predecessor path.
LastBefore(v) == pointNodes[v].shortestPath[Len(pointNodes[v].shortestPath)]

\* The weight of the edge from u to v.
EdgeWeight(u, v) == (CHOOSE e \in Range(graph[u]) : e.node = v).weight

\* The axis of the step from a to b.
Axis(a, b) == IF a.y = b.y THEN "x" ELSE IF a.x = b.x THEN "y" ELSE "none"

\* The penalty of the step from u to v: (w + 1)^2 when u has a predecessor
\* and the step from it to u lies on the other axis.
TurnPenalty(u, v) ==
    IF /\ pointNodes[u].shortestPath # <<>>
       /\ Axis(LastBefore(u), u) # Axis(u, v)
    THEN (EdgeWeight(u, v) + 1) * (EdgeWeight(u, v) + 1)
    ELSE 0

\* C18: when the search has finished, every reached node v other than the
\* origin has a predecessor path that is the path of its last node u
\* followed by u, u and v are joined by an edge, and v.distance =
\* u.distance + w + p with w the weight of that edge and p the turn penalty.
C18_DistanceOfPredecessor ==
    SearchFinished =>
        \A v \in ReachedNodes :
            /\ pointNodes[v].shortestPath # <<>>
            /\ \E e \in Range(graph[LastBefore(v)]) : e.node = v
            /\ pointNodes[v].shortestPath =
                   Append(pointNodes[LastBefore(v)].shortestPath, LastBefore(v))
            /\ pointNodes[v].distance =
                   pointNodes[LastBefore(v)].distance + EdgeWeight(LastBefore(v), v)
                       + TurnPenalty(LastBefore(v), v)

\* A finished search with a reached node whose distance holds a penalty and a
\* reached node whose predecessor has a predecessor and no penalty is due.
C18_Witness ==
    /\ SearchFinished
    /\ \E v \in ReachedNodes : TurnPenalty(LastBefore(v), v) > 0
    /\ \E v \in ReachedNodes :
           /\ pointNodes[LastBefore(v)].shortestPath # <<>>
           /\ TurnPenalty(LastBefore(v), v) = 0

\* A shortestPath call made on a graph directly is in its search.
SearchRunning == call.kind = "direct" /\ pc \in {"visit", "adjacent"}

\* The nodes a chain of edges connects to the origin.
Connected == Reach(graph, {call.origin})

\* At the end of a search the connected nodes are settled, with a finite
\* distance and, the origin apart, a predecessor path; the other nodes are
\* as they were created.
SettledWhenFinished ==
    SearchFinished =>
        /\ settledNodes = Connected
        /\ \A n \in Connected :
               /\ pointNodes[n].distance < MAX_SAFE_INTEGER
               /\ n # call.origin => pointNodes[n].shortestPath # <<>>
        /\ \A n \in DOMAIN graph \ Connected : pointNodes[n] = PointNode

\* C19: the search from the origin terminates, it does not stop when the
\* destination is settled, and when it ends every node connected to the
\* origin is settled with a finite distance and, except the origin, a
\* non-empty predecessor path, while every other node keeps the initial
\* distance and an empty path.
C19_SearchRunsToCompletion ==
    /\ SearchRunning ~> (pc = "done")
    /\ []SettledWhenFinished

\* A search has returned on a graph with a node that is not connected to the
\* origin and a connected node farther from the origin than the destination.
C19_Witness ==
    /\ SearchFinished
    /\ pc = "done"
    /\ DOMAIN graph # Connected
    /\ call.destination # call.origin
    /\ \E n \in Connected :
           pointNodes[n].distance > pointNodes[call.destination].distance

\* createGraph has returned.
GraphBuilt == pc = "done" /\ call.kind = "createGraph"

\* The distinct x and y values of the spots given to createGraph.
SpotXs == {call.spots[k].x : k \in DOMAIN call.spots}

SpotYs == {call.spots[k].y : k \in DOMAIN call.spots}

\* u and v are consecutive in the ascending list of the values V.
Consecutive(V, u, v) ==
    /\ u \in V
    /\ v \in V
    /\ u # v
    /\ ~ \E m \in V : (u < m /\ m < v) \/ (v < m /\ m < u)

\* a and b share one coordinate and their other coordinates are consecutive
\* among the values of the spots.
NextOnLine(a, b) ==
    \/ a.y = b.y /\ Consecutive(SpotXs, a.x, b.x)
    \/ a.x = b.x /\ Consecutive(SpotYs, a.y, b.y)

\* The adjacency Map of node a has an entry for node b.
HasEdge(a, b) == \E k \in DOMAIN graph[a] : graph[a][k].node = b

\* C20: createGraph creates one node per distinct spot coordinate, an edge
\* between two distinct nodes exactly when they share one coordinate and
\* their other coordinates are consecutive among the distinct values of the
\* spots, and every edge in both directions with the Euclidean distance of
\* its two points as weight.
C20_GraphOfSpots ==
    GraphBuilt =>
        /\ DOMAIN graph = {call.spots[k] : k \in DOMAIN call.spots}
        /\ \A a \in DOMAIN graph, b \in DOMAIN graph :
               HasEdge(a, b) <=> (a # b /\ NextOnLine(a, b))
        /\ \A a \in DOMAIN graph :
               /\ \A k \in DOMAIN graph[a] :
                      /\ graph[a][k].node \in DOMAIN graph
                      /\ graph[a][k].weight * graph[a][k].weight =
                             (a.x - graph[a][k].node.x) * (a.x - graph[a][k].node.x)
                                 + (a.y - graph[a][k].node.y) * (a.y - graph[a][k].node.y)
                      /\ \E l \in DOMAIN graph[graph[a][k].node] :
                             graph[graph[a][k].node][l] =
                                 [node |-> a, weight |-> graph[a][k].weight]
               /\ \A k \in DOMAIN graph[a], l \in DOMAIN graph[a] :
                      graph[a][k].node = graph[a][l].node => k = l

\* A graph built from an array with a repeated spot, with a node that has
\* edges on both axes and two nodes of one row that are not joined.
C20_Witness ==
    /\ GraphBuilt
    /\ Len(call.spots) > Cardinality(DOMAIN graph)
    /\ \E a \in DOMAIN graph, b \in DOMAIN graph, c \in DOMAIN graph :
           /\ HasEdge(a, b) /\ a.y = b.y
           /\ HasEdge(a, c) /\ a.x = c.x
    /\ \E a \in DOMAIN graph, b \in DOMAIN graph :
           a # b /\ a.y = b.y /\ ~ HasEdge(a, b)

\* type BendDirection
BendDirections == {"none", "n", "e", "s", "w", "unknown"}

\* A getBend call has returned or thrown.
BendDone == pc = "done" /\ call.kind = "getBend"

\* The step from a to b is horizontal or vertical.
AxisAligned(a, b) == a.x = b.x \/ a.y = b.y

\* The triple is not collinear on one axis and one of its two steps is
\* neither horizontal nor vertical.
NonOrthogonal(a, b, c) ==
    /\ ~CollinearOnAxis(a, b, c)
    /\ ~AxisAligned(a, b) \/ ~AxisAligned(b, c)

\* The points of P at the positions I, in the order of P.
PointsAt(P, I) ==
    LET positions == SelectSeq([i \in 1..Len(P) |-> i], LAMBDA i : i \in I)
    IN  [k \in 1..Len(positions) |-> P[positions[k]]]

\* The interior positions of P whose triple is non-orthogonal.
NonOrthogonalAt(P) ==
    {i \in 2..(Len(P) - 1) : NonOrthogonal(P[i - 1], P[i], P[i + 1])}

\* C21: getBend never throws: for every triple of points it returns one of
\* none, n, e, s, w, unknown, and unknown whenever the triple is not
\* collinear on one axis and one of its two steps is not axis-aligned;
\* simplifyPath does not throw either and keeps the middle point of such a
\* triple.
C21_BendNeverFails ==
    /\ BendDone =>
           /\ result.kind = "return"
           /\ result.bend \in BendDirections
           /\ NonOrthogonal(call.a, call.b, call.c) => result.bend = "unknown"
    /\ Simplified =>
           /\ result.kind = "return"
           /\ \E I \in SUBSET (1..Len(call.points)) :
                  /\ NonOrthogonalAt(call.points) \subseteq I
                  /\ result.points = PointsAt(call.points, I)

\* simplifyPath has dropped a point of a sequence and kept the middle point
\* of a non-orthogonal triple that starts with two coincident points.
C21_Witness ==
    /\ Simplified
    /\ result.kind = "return"
    /\ Len(result.points) < Len(call.points)
    /\ \E i \in NonOrthogonalAt(call.points) : call.points[i - 1] = call.points[i]

\* The least element of a non-empty set of numbers.
Least(S) == CHOOSE d \in S : \A e \in S : d <= e

\* The least turn-penalized cost of a path in the graph from node u, reached
\* by a step on the axis arrival ("none" at the origin), to the node target
\* through nodes outside visited: the sum of the weights of its edges plus
\* (w + 1)^2 for every edge of weight w whose axis differs from that of the
\* edge before it.  MAX_SAFE_INTEGER when there is no such path.
RECURSIVE LeastCost(_, _, _, _)
LeastCost(u, arrival, visited, target) ==
    IF u = target THEN 0
    ELSE LET onward == {k \in DOMAIN graph[u] : graph[u][k].node \notin visited}
             rest == [k \in onward |->
                         LeastCost(graph[u][k].node, Axis(u, graph[u][k].node),
                                   visited \cup {graph[u][k].node}, target)]
             costs == {graph[u][k].weight
                           + (IF arrival # "none" /\ arrival # Axis(u, graph[u][k].node)
                              THEN (graph[u][k].weight + 1) * (graph[u][k].weight + 1)
                              ELSE 0)
                           + rest[k] : k \in {l \in onward : rest[l] < MAX_SAFE_INTEGER}}
         IN  IF costs = {} THEN MAX_SAFE_INTEGER ELSE Least(costs)

\* The least turn-penalized cost of a path from the origin to v.
LeastCostTo(v) == LeastCost(call.origin, "none", {call.origin}, v)

\* C22: when the search has finished, the distance of every reached node is
\* the least turn-penalized cost of a path from the origin to it.
C22_DistanceIsLeastCost ==
    SearchFinished =>
        \A v \in ReachedNodes : pointNodes[v].distance = LeastCostTo(v)

\* A step that starts the second shortestPath call of route, or one of its
\* search, leaves the distance and the predecessor path of every node as the
\* first call left them.
SecondSearchKeepsNodes == call'.kind = "second" => pointNodes' = pointNodes

\* When the second call has returned, the path of the destination is the
\* path the first call returned, and route returns that path, simplified,
\* between the two anchors.
SecondPathIsFirstPath ==
    (RouteDone /\ call.kind = "second" /\ result.kind = "return") =>
        /\ ReturnedPath = pathConnector
        /\ result.points = simplifyPath(<<locals.start>> \o pathConnector \o <<locals.end>>)

\* C23: the search run a second time from the same origin on the graph the
\* first search has processed changes no node's distance or predecessor
\* path, so the second shortestPath call of route returns the point
\* sequence of the first, which route simplifies and returns.
C23_SecondSearchChangesNothing ==
    /\ [][SecondSearchKeepsNodes]_vars
    /\ []SecondPathIsFirstPath

\* route has returned after a second search that settled more nodes than
\* the returned path holds, for a path of at least three nodes.
C23_Witness ==
    /\ RouteDone
    /\ call.kind = "second"
    /\ result.kind = "return"
    /\ Len(pathConnector) >= 3
    /\ Cardinality(settledNodes) > Len(pathConnector) + 1

============================================================================
